---------------------------- MODULE Spec2Model ----------------------------
(***************************************************************************)
(* Sushi store: stock management over Redis (src/src/sushi_store.py).      *)
(*                                                                         *)
(* Every record is a Redis hash "sushi:<id>" with the fields id, the       *)
(* ingredients, stock and nb_achat (the purchase count).  buy_item and     *)
(* restock_item each run WATCH key / HGET key stock / MULTI ... EXEC.      *)
(* Each process of the model is one invocation of buy_item or              *)
(* restock_item; its steps are the round trips to the Redis server, which  *)
(* executes every command (and every MULTI/EXEC block) atomically.         *)
(***************************************************************************)
EXTENDS Integers, Sequences, FiniteSets

(***************************************************************************)
(* Bounds of the model.                                                    *)
(***************************************************************************)
\* number of concurrent invocations with arbitrary arguments (Spec)
NumCallers == 2
\* number of concurrent buyers of one unit of the same sushi (SpecBurst)
NumBuyers == 3

(***************************************************************************)
(* Program constants (src/src/config.py).                                  *)
(***************************************************************************)
MAX_STOCK == 10000
MIN_INITIAL_STOCK == 10
MAX_INITIAL_STOCK == 10000
INGREDIENT_OPTIONS == {"Oui", "Non"}

Procs == 1..NumBuyers
Callers == 1..NumCallers
\* the keys f"sushi:{i}" written by load_sushis_to_redis, in list order
KeyNames == <<"sushi:0", "sushi:1">>
LoadedKeys == {KeyNames[i] : i \in 1..Len(KeyNames)}
\* a key that was never loaded
MissingKey == "sushi:2"
AllKeys == LoadedKeys \cup {MissingKey}

\* values of random.randint(MIN_INITIAL_STOCK, MAX_INITIAL_STOCK) explored
InitialStocks == {MIN_INITIAL_STOCK, MAX_STOCK - 2, MAX_INITIAL_STOCK}
\* amounts a caller asks for (count > 0)
Amounts == {1, MIN_INITIAL_STOCK}
\* amounts including the ones a caller should not pass
AnyAmounts == Amounts \cup {0, -1}

VARIABLES
    store,          \* Redis: key -> hash (only loaded keys are in its domain)
    pc,             \* per invocation: position in buy_item / restock_item
    op,             \* per invocation: "buy" or "restock"
    sushi_id,       \* per invocation: the key argument
    count,          \* per invocation: the count argument
    current_stock,  \* per invocation: the local read by HGET
    dirty,          \* per invocation: Redis' CLIENT_DIRTY_CAS flag of the pipeline connection
    outcome,        \* per invocation: how the call ended (return or exception)
    commits,        \* history: per key, the sequence of EXEC blocks applied
    watched_at,     \* history: per invocation, Len(commits[key]) when it sent WATCH
    read_at,        \* history: per invocation, Len(commits[key]) when it sent HGET
    loaded          \* history: the store as load_sushis_to_redis left it

vars == <<store, pc, op, sushi_id, count, current_stock, dirty, outcome,
          commits, watched_at, read_at, loaded>>

NoKey == ""
Outcomes == {"None", "Success", "TooMuchDemandError", "OutOfStockError",
             "NoPlaceAvailableError", "TooMuchStockError", "WatchError",
             "AttributeError"}

Min(a, b) == IF a <= b THEN a ELSE b

(***************************************************************************)
(* generate_sushi: one record; saumon stands for the 73 ingredient fields, *)
(* each 'Oui' or 'Non'.                                                    *)
(***************************************************************************)
generate_sushi(i, ingredient, stock) ==
    [id |-> i, saumon |-> ingredient, stock |-> stock, nb_achat |-> 0]

\* the invocations that hold a WATCH on key k
Watchers(k) == {q \in Procs : pc[q] \in {"read", "decide"} /\ sushi_id[q] = k}

\* variant: a write flags no watcher
TouchWatchedKey_none(k) == dirty

\* variant: a write flags every client that watches any key
TouchWatchedKey_all(k) ==
    [q \in Procs |-> IF pc[q] \in {"read", "decide"} THEN TRUE ELSE dirty[q]]

\* Redis touchWatchedKey: a write to k flags every client watching k
TouchWatchedKey(k) ==
    [q \in Procs |-> IF q \in Watchers(k) THEN TRUE ELSE dirty[q]]

\* HINCRBY key field delta
Hincrby(h, field, delta) == [h EXCEPT ![field] = @ + delta]
\* HSET key field value
Hset(h, field, value) == [h EXCEPT ![field] = value]

\* the locals of an invocation that has not started or has ended
NoLocals(p) ==
    /\ op' = [op EXCEPT ![p] = "none"]
    /\ sushi_id' = [sushi_id EXCEPT ![p] = NoKey]
    /\ count' = [count EXCEPT ![p] = 0]
    /\ current_stock' = [current_stock EXCEPT ![p] = 0]
    /\ watched_at' = [watched_at EXCEPT ![p] = 0]
    /\ read_at' = [read_at EXCEPT ![p] = 0]

Idle ==
    /\ pc = [p \in Procs |-> "idle"]
    /\ op = [p \in Procs |-> "none"]
    /\ sushi_id = [p \in Procs |-> NoKey]
    /\ count = [p \in Procs |-> 0]
    /\ current_stock = [p \in Procs |-> 0]
    /\ dirty = [p \in Procs |-> FALSE]
    /\ outcome = [p \in Procs |-> "None"]
    /\ watched_at = [p \in Procs |-> 0]
    /\ read_at = [p \in Procs |-> 0]

\* load_sushis_to_redis: HSET f"sushi:{i}" for the i-th sushi of the list
load_sushis_to_redis(sushis) ==
    [k \in LoadedKeys |-> sushis[CHOOSE i \in 1..Len(KeyNames) : KeyNames[i] = k]]

(***************************************************************************)
(* The store after generate_sushi_database and load_sushis_to_redis.       *)
(***************************************************************************)
Init ==
    /\ \E stocks \in [1..Len(KeyNames) -> InitialStocks] :
       \E ingredient \in INGREDIENT_OPTIONS :
          store = load_sushis_to_redis(
                    [i \in 1..Len(KeyNames) |->
                        generate_sushi(i - 1, ingredient, stocks[i])])
    /\ loaded = store
    /\ commits = [k \in LoadedKeys |-> <<>>]
    /\ Idle

(***************************************************************************)
(* A caller invokes buy_item(r, key, n) or restock_item(r, key, n).        *)
(***************************************************************************)
Call(p, amounts) ==
    /\ pc[p] = "idle"
    /\ \E o \in {"buy", "restock"}, k \in AllKeys, n \in amounts :
          /\ op' = [op EXCEPT ![p] = o]
          /\ sushi_id' = [sushi_id EXCEPT ![p] = k]
          /\ count' = [count EXCEPT ![p] = n]
    /\ pc' = [pc EXCEPT ![p] = "watch"]
    /\ UNCHANGED <<store, current_stock, dirty, outcome, commits, watched_at, read_at, loaded>>

\* number of EXEC blocks applied to key k so far (0 for a key never loaded)
Version(k) == IF k \in DOMAIN commits THEN Len(commits[k]) ELSE 0

(***************************************************************************)
(* pipe.watch(sushi_id): the connection starts watching the key.           *)
(***************************************************************************)
Watch(p) ==
    /\ pc[p] = "watch"
    /\ pc' = [pc EXCEPT ![p] = "read"]
    /\ dirty' = [dirty EXCEPT ![p] = FALSE]
    /\ watched_at' = [watched_at EXCEPT ![p] = Version(sushi_id[p])]
    /\ UNCHANGED <<store, op, sushi_id, count, current_stock, outcome, commits, read_at, loaded>>

\* variant: a failed HGET sends the call back to the top of its loop
Read_retry(p) ==
    /\ pc[p] = "read"
    /\ IF sushi_id[p] \in DOMAIN store
       THEN /\ current_stock' = [current_stock EXCEPT ![p] = store[sushi_id[p]].stock]
            /\ read_at' = [read_at EXCEPT ![p] = Version(sushi_id[p])]
            /\ pc' = [pc EXCEPT ![p] = "decide"]
            /\ UNCHANGED <<op, sushi_id, count, watched_at, outcome, dirty>>
       ELSE /\ pc' = [pc EXCEPT ![p] = "watch"]
            /\ UNCHANGED <<op, sushi_id, count, watched_at, outcome, dirty,
                           current_stock, read_at>>
    /\ UNCHANGED <<store, commits, loaded>>

(***************************************************************************)
(* current_stock = int(r.hget(sushi_id, 'stock').decode()).  HGET of a     *)
(* missing key returns None, and None.decode() raises AttributeError; the  *)
(* with-block then resets the pipeline (UNWATCH).                          *)
(***************************************************************************)
Read(p) ==
    /\ pc[p] = "read"
    /\ IF sushi_id[p] \in DOMAIN store
       THEN /\ current_stock' = [current_stock EXCEPT ![p] = store[sushi_id[p]].stock]
            /\ read_at' = [read_at EXCEPT ![p] = Version(sushi_id[p])]
            /\ pc' = [pc EXCEPT ![p] = "decide"]
            /\ UNCHANGED <<op, sushi_id, count, watched_at, outcome, dirty>>
       ELSE /\ outcome' = [outcome EXCEPT ![p] = "AttributeError"]
            /\ pc' = [pc EXCEPT ![p] = "done"]
            /\ dirty' = [dirty EXCEPT ![p] = FALSE]
            /\ NoLocals(p)
    /\ UNCHANGED <<store, commits, loaded>>

\* variant: EXEC applies the block whether or not the watched key was touched
Execute_unwatched(p, new_hash, result) ==
    LET k == sushi_id[p] IN
    /\ store' = [store EXCEPT ![k] = new_hash]
    /\ dirty' = [TouchWatchedKey(k) EXCEPT ![p] = FALSE]
    /\ commits' = [commits EXCEPT ![k] =
         Append(@, [proc |-> p, op |-> op[p], count |-> count[p],
                    observed |-> current_stock[p],
                    watched_at |-> watched_at[p], read_at |-> read_at[p],
                    before |-> store[k], after |-> new_hash])]
    /\ outcome' = [outcome EXCEPT ![p] = result]
    /\ pc' = [pc EXCEPT ![p] = "done"]
    /\ NoLocals(p)
    /\ UNCHANGED loaded

\* variant: the WatchError of an aborted EXEC is swallowed and the function
\* ends as if the block had been applied
Execute_swallow(p, new_hash, result) ==
    LET k == sushi_id[p] IN
    /\ IF dirty[p]
       THEN /\ outcome' = [outcome EXCEPT ![p] = result]
            /\ dirty' = [dirty EXCEPT ![p] = FALSE]
            /\ UNCHANGED <<store, commits>>
       ELSE /\ store' = [store EXCEPT ![k] = new_hash]
            /\ dirty' = [TouchWatchedKey(k) EXCEPT ![p] = FALSE]
            /\ commits' = [commits EXCEPT ![k] =
                 Append(@, [proc |-> p, op |-> op[p], count |-> count[p],
                            observed |-> current_stock[p],
                            watched_at |-> watched_at[p], read_at |-> read_at[p],
                            before |-> store[k], after |-> new_hash])]
            /\ outcome' = [outcome EXCEPT ![p] = result]
    /\ pc' = [pc EXCEPT ![p] = "done"]
    /\ NoLocals(p)
    /\ UNCHANGED loaded

\* variant: the pipeline is not transactional: an aborted block has already
\* written its stock field
Execute_halfway(p, new_hash, result) ==
    LET k == sushi_id[p] IN
    /\ IF dirty[p]
       THEN /\ outcome' = [outcome EXCEPT ![p] = "WatchError"]
            /\ dirty' = [dirty EXCEPT ![p] = FALSE]
            /\ store' = [store EXCEPT ![k].stock = new_hash.stock]
            /\ UNCHANGED commits
       ELSE /\ store' = [store EXCEPT ![k] = new_hash]
            /\ dirty' = [TouchWatchedKey(k) EXCEPT ![p] = FALSE]
            /\ commits' = [commits EXCEPT ![k] =
                 Append(@, [proc |-> p, op |-> op[p], count |-> count[p],
                            observed |-> current_stock[p],
                            watched_at |-> watched_at[p], read_at |-> read_at[p],
                            before |-> store[k], after |-> new_hash])]
            /\ outcome' = [outcome EXCEPT ![p] = result]
    /\ pc' = [pc EXCEPT ![p] = "done"]
    /\ NoLocals(p)
    /\ UNCHANGED loaded

\* variant: the WatchError of an aborted EXEC is caught and the loop runs again
Execute_retry(p, new_hash, result) ==
    LET k == sushi_id[p] IN
    IF dirty[p]
    THEN /\ pc' = [pc EXCEPT ![p] = "watch"]
         /\ dirty' = [dirty EXCEPT ![p] = FALSE]
         /\ UNCHANGED <<store, commits, outcome, op, sushi_id, count,
                        current_stock, watched_at, read_at, loaded>>
    ELSE /\ store' = [store EXCEPT ![k] = new_hash]
         /\ dirty' = [TouchWatchedKey(k) EXCEPT ![p] = FALSE]
         /\ commits' = [commits EXCEPT ![k] =
              Append(@, [proc |-> p, op |-> op[p], count |-> count[p],
                         observed |-> current_stock[p],
                         watched_at |-> watched_at[p], read_at |-> read_at[p],
                         before |-> store[k], after |-> new_hash])]
         /\ outcome' = [outcome EXCEPT ![p] = result]
         /\ pc' = [pc EXCEPT ![p] = "done"]
         /\ NoLocals(p)
         /\ UNCHANGED loaded

(***************************************************************************)
(* pipe.execute(): MULTI, the queued commands and EXEC.  Redis aborts the  *)
(* block when the watched key was touched since WATCH (redis-py raises     *)
(* WatchError, which neither function catches); otherwise it applies the   *)
(* commands in one step and flags the watchers of the key.  new_hash is    *)
(* the hash after the queued commands, result the way the function ends    *)
(* after execute() returned.                                               *)
(***************************************************************************)
Execute(p, new_hash, result) ==
    LET k == sushi_id[p] IN
    /\ IF dirty[p]
       THEN /\ outcome' = [outcome EXCEPT ![p] = "WatchError"]
            /\ dirty' = [dirty EXCEPT ![p] = FALSE]
            /\ UNCHANGED <<store, commits>>
       ELSE /\ store' = [store EXCEPT ![k] = new_hash]
            /\ dirty' = [TouchWatchedKey(k) EXCEPT ![p] = FALSE]
            /\ commits' = [commits EXCEPT ![k] =
                 Append(@, [proc |-> p, op |-> op[p], count |-> count[p],
                            observed |-> current_stock[p],
                            watched_at |-> watched_at[p], read_at |-> read_at[p],
                            before |-> store[k], after |-> new_hash])]
            /\ outcome' = [outcome EXCEPT ![p] = result]
    /\ pc' = [pc EXCEPT ![p] = "done"]
    /\ NoLocals(p)
    /\ UNCHANGED loaded

\* pipe.unwatch() followed by raise
Unwatch(p, result) ==
    /\ dirty' = [dirty EXCEPT ![p] = FALSE]
    /\ outcome' = [outcome EXCEPT ![p] = result]
    /\ pc' = [pc EXCEPT ![p] = "done"]
    /\ NoLocals(p)
    /\ UNCHANGED <<store, commits, loaded>>

\* variant: the full purchase forgets HINCRBY nb_achat
BuyFull_nocount(p) ==
    /\ pc[p] = "decide" /\ op[p] = "buy"
    /\ current_stock[p] >= count[p]
    /\ Execute(p, Hincrby(store[sushi_id[p]], "stock", -count[p]), "Success")

\* variant: the partial purchase counts the requested amount as bought
BuyPartial_count(p) ==
    /\ pc[p] = "decide" /\ op[p] = "buy"
    /\ ~(current_stock[p] >= count[p])
    /\ current_stock[p] > 0
    /\ Execute(p, Hincrby(Hset(store[sushi_id[p]], "stock", 0),
                          "nb_achat", count[p]),
               "TooMuchDemandError")

\* variant: the out-of-stock branch runs an empty MULTI/EXEC before raising
BuyNone_commit(p) ==
    /\ pc[p] = "decide" /\ op[p] = "buy"
    /\ ~(current_stock[p] >= count[p])
    /\ ~(current_stock[p] > 0)
    /\ Execute(p, store[sushi_id[p]], "OutOfStockError")

\* variant: the out-of-stock branch waits for stock: it goes back to the top
\* of the loop instead of raising
BuyNone_retry(p) ==
    /\ pc[p] = "decide" /\ op[p] = "buy"
    /\ ~(current_stock[p] >= count[p])
    /\ ~(current_stock[p] > 0)
    /\ pc' = [pc EXCEPT ![p] = "watch"]
    /\ dirty' = [dirty EXCEPT ![p] = FALSE]
    /\ UNCHANGED <<store, op, sushi_id, count, current_stock, outcome, commits,
                   watched_at, read_at, loaded>>

\* variant: the full restock also counts the units as purchases
RestockFull_count(p) ==
    /\ pc[p] = "decide" /\ op[p] = "restock"
    /\ current_stock[p] + count[p] <= MAX_STOCK
    /\ Execute(p, Hincrby(Hincrby(store[sushi_id[p]], "stock", count[p]),
                          "nb_achat", count[p]),
               "Success")

\* variant: the partial restock adds the requested amount
RestockPartial_incr(p) ==
    /\ pc[p] = "decide" /\ op[p] = "restock"
    /\ ~(current_stock[p] + count[p] <= MAX_STOCK)
    /\ current_stock[p] < MAX_STOCK
    /\ Execute(p, Hincrby(store[sushi_id[p]], "stock", count[p]),
               "NoPlaceAvailableError")

(***************************************************************************)
(* buy_item, the three branches on current_stock.                          *)
(***************************************************************************)
BuyFull(p) ==
    /\ pc[p] = "decide" /\ op[p] = "buy"
    /\ current_stock[p] >= count[p]
    /\ Execute(p, Hincrby(Hincrby(store[sushi_id[p]], "stock", -count[p]),
                          "nb_achat", count[p]),
               "Success")

BuyPartial(p) ==
    /\ pc[p] = "decide" /\ op[p] = "buy"
    /\ ~(current_stock[p] >= count[p])
    /\ current_stock[p] > 0
    /\ Execute(p, Hincrby(Hset(store[sushi_id[p]], "stock", 0),
                          "nb_achat", current_stock[p]),
               "TooMuchDemandError")

BuyNone(p) ==
    /\ pc[p] = "decide" /\ op[p] = "buy"
    /\ ~(current_stock[p] >= count[p])
    /\ ~(current_stock[p] > 0)
    /\ Unwatch(p, "OutOfStockError")

(***************************************************************************)
(* restock_item, the three branches on current_stock.                      *)
(***************************************************************************)
RestockFull(p) ==
    /\ pc[p] = "decide" /\ op[p] = "restock"
    /\ current_stock[p] + count[p] <= MAX_STOCK
    /\ Execute(p, Hincrby(store[sushi_id[p]], "stock", count[p]), "Success")

RestockPartial(p) ==
    /\ pc[p] = "decide" /\ op[p] = "restock"
    /\ ~(current_stock[p] + count[p] <= MAX_STOCK)
    /\ current_stock[p] < MAX_STOCK
    /\ Execute(p, Hset(store[sushi_id[p]], "stock", MAX_STOCK),
               "NoPlaceAvailableError")

RestockNone(p) ==
    /\ pc[p] = "decide" /\ op[p] = "restock"
    /\ ~(current_stock[p] + count[p] <= MAX_STOCK)
    /\ ~(current_stock[p] < MAX_STOCK)
    /\ Unwatch(p, "TooMuchStockError")

Step(p) ==
    \/ Watch(p)
    \/ Read(p)
    \/ BuyFull(p)
    \/ BuyPartial(p)
    \/ BuyNone(p)
    \/ RestockFull(p)
    \/ RestockPartial(p)
    \/ RestockNone(p)

(***************************************************************************)
(* Spec: NumCallers concurrent invocations with any operation, any key and *)
(* any amount > 0.                                                         *)
(***************************************************************************)
Next == \E p \in Callers : Call(p, Amounts) \/ Step(p)

Spec == Init /\ [][Next]_vars

(***************************************************************************)
(* FairSpec: the calls of Spec on one loaded store (a sushi at the lowest  *)
(* initial stock, one two units under the capacity), with every invocation *)
(* that has begun scheduled fairly: a thread inside buy_item or            *)
(* restock_item keeps running, and the Redis server answers every command. *)
(***************************************************************************)
FairStocks == <<MIN_INITIAL_STOCK, MAX_STOCK - 2>>

InitFair ==
    /\ store = load_sushis_to_redis(
                 [i \in 1..Len(KeyNames) |->
                     generate_sushi(i - 1, "Oui", FairStocks[i])])
    /\ loaded = store
    /\ commits = [k \in LoadedKeys |-> <<>>]
    /\ Idle

FairSpec == InitFair /\ [][Next]_vars /\ \A p \in Callers : WF_vars(Step(p))

(***************************************************************************)
(* SpecAnyAmount: as Spec, and callers may also pass a count <= 0.         *)
(***************************************************************************)
NextAnyAmount == \E p \in Callers : Call(p, AnyAmounts) \/ Step(p)

SpecAnyAmount == Init /\ [][NextAnyAmount]_vars

(***************************************************************************)
(* SpecBurst: NumBuyers concurrent buy_item(r, BurstKey, 1) on a sushi     *)
(* that was loaded with MIN_INITIAL_STOCK units and has k < NumBuyers      *)
(* units left, the others having been bought by earlier calls.  commits    *)
(* is the history of the burst.  With count = 1 the partial branch of      *)
(* buy_item cannot be taken (0 < current_stock < 1 is empty).              *)
(***************************************************************************)
BurstKey == KeyNames[1]

InitBurst ==
    /\ \E k \in 0..(NumBuyers - 1) :
          store = [load_sushis_to_redis(
                     [i \in 1..Len(KeyNames) |->
                        generate_sushi(i - 1, "Oui", MIN_INITIAL_STOCK)])
                   EXCEPT ![BurstKey].stock = k,
                          ![BurstKey].nb_achat = MIN_INITIAL_STOCK - k]
    /\ loaded = store
    /\ commits = [k \in LoadedKeys |-> <<>>]
    /\ pc = [p \in Procs |-> "watch"]
    /\ op = [p \in Procs |-> "buy"]
    /\ sushi_id = [p \in Procs |-> BurstKey]
    /\ count = [p \in Procs |-> 1]
    /\ current_stock = [p \in Procs |-> 0]
    /\ dirty = [p \in Procs |-> FALSE]
    /\ outcome = [p \in Procs |-> "None"]
    /\ watched_at = [p \in Procs |-> 0]
    /\ read_at = [p \in Procs |-> 0]

NextBurst == \E p \in Procs : Watch(p) \/ Read(p) \/ BuyFull(p) \/ BuyNone(p)

SpecBurst == InitBurst /\ [][NextBurst]_vars


(***************************************************************************)
(* Properties.                                                             *)
(***************************************************************************)
\* the step is invocation p leaving its decide position
Decides(p) == pc[p] = "decide" /\ pc'[p] = "done"
\* the step is invocation p ending with its MULTI/EXEC block applied
Commits(p) == Decides(p) /\ Len(commits'[sushi_id[p]]) = Len(commits[sushi_id[p]]) + 1

\* C1: SpecBurst: once the NumBuyers concurrent buy_item(r, BurstKey, 1) calls
\* on a sushi with k < NumBuyers units have all ended, the k units are all
\* sold: stock is 0 and nb_achat has grown by exactly k (from
\* MIN_INITIAL_STOCK - k to MIN_INITIAL_STOCK).
C1_BurstSellsExactlyStock ==
    (\A p \in Procs : pc[p] = "done") =>
        /\ store[BurstKey].stock = 0
        /\ store[BurstKey].nb_achat = MIN_INITIAL_STOCK

\* C2: a lost commit race is never surfaced: every call that has ended ended
\* with Success (plain return), PartialFulfillment (TooMuchDemandError,
\* NoPlaceAvailableError), OutOfStock, AtCapacity (TooMuchStockError) or
\* NotFound (the AttributeError of a missing key), never with a conflict.
C2_ConflictNeverSurfaced ==
    \A p \in Procs : pc[p] = "done" =>
        outcome[p] \in {"Success", "TooMuchDemandError", "NoPlaceAvailableError",
                        "OutOfStockError", "TooMuchStockError", "AttributeError"}

\* C3: in every reachable state every record has 0 <= stock <= MAX_STOCK
\* (records loaded with a stock in MIN_INITIAL_STOCK..MAX_INITIAL_STOCK, calls
\* with count > 0).
C3_StockInRange ==
    \A k \in DOMAIN store : 0 <= store[k].stock /\ store[k].stock <= MAX_STOCK

\* C3 witness: a record was sold out by a committed purchase
C3_Witness ==
    \E k \in DOMAIN store :
        /\ store[k].stock = 0
        /\ \E i \in 1..Len(commits[k]) : commits[k][i].op = "buy"

\* C4: nb_achat is never negative and never decreases; it changes only in a
\* step in which a buy_item call commits, and then grows by exactly the number
\* of units that purchase took out of the stock.
C4_PurchaseCountMonotone ==
    /\ [](\A k \in DOMAIN store : store[k].nb_achat >= 0)
    /\ [][\A k \in DOMAIN store :
            /\ store'[k].nb_achat >= store[k].nb_achat
            /\ store'[k].nb_achat # store[k].nb_achat =>
                 \E p \in Procs :
                    /\ Commits(p) /\ op[p] = "buy" /\ sushi_id[p] = k
                    /\ store'[k].nb_achat - store[k].nb_achat
                         = store[k].stock - store'[k].stock
                    /\ store'[k].nb_achat - store[k].nb_achat
                         = Min(store[k].stock, count[p])]_vars

\* C4 witness: a record with purchases on which a restock was committed too
C4_Witness ==
    \E k \in DOMAIN store :
        /\ store[k].nb_achat > 0
        /\ \E i \in 1..Len(commits[k]) : commits[k][i].op = "restock"

\* C5: conservation for buy_item: when a purchase of count > 0 commits on a
\* record whose stored stock is s, the stock becomes s - min(s, count) and
\* nb_achat grows by min(s, count); the call ends with Success when
\* s >= count and with TooMuchDemandError (stock set to 0) when 0 < s < count.
C5_BuyConservation ==
    [][\A p \in Procs :
          (Commits(p) /\ op[p] = "buy" /\ count[p] > 0) =>
             LET k == sushi_id[p]
                 s == store[k].stock
             IN /\ store'[k].stock = s - Min(s, count[p])
                /\ store'[k].nb_achat = store[k].nb_achat + Min(s, count[p])
                /\ s > 0
                /\ (s >= count[p]) => outcome'[p] = "Success"
                /\ (s < count[p]) =>
                      outcome'[p] = "TooMuchDemandError" /\ store'[k].stock = 0]_vars

\* C5 witness: a partial purchase and a full purchase were both committed
C5_Witness ==
    /\ \E p \in Procs : outcome[p] = "TooMuchDemandError"
    /\ \E k \in DOMAIN store : \E i \in 1..Len(commits[k]) :
          /\ commits[k][i].op = "buy"
          /\ commits[k][i].before.stock >= commits[k][i].count

\* C6: capacity clamp for restock_item: when a restock of count > 0 commits
\* on a record whose stored stock is s, the stock becomes
\* min(s + count, MAX_STOCK); the call ends with Success when
\* s + count <= MAX_STOCK and with NoPlaceAvailableError when
\* s < MAX_STOCK < s + count.
C6_RestockClamp ==
    [][\A p \in Procs :
          (Commits(p) /\ op[p] = "restock" /\ count[p] > 0) =>
             LET k == sushi_id[p]
                 s == store[k].stock
             IN /\ store'[k].stock = Min(s + count[p], MAX_STOCK)
                /\ s < MAX_STOCK
                /\ (s + count[p] <= MAX_STOCK) => outcome'[p] = "Success"
                /\ (s + count[p] > MAX_STOCK) =>
                      outcome'[p] = "NoPlaceAvailableError"]_vars

\* C6 witness: a partial restock and a full restock were both committed
C6_Witness ==
    /\ \E p \in Procs : outcome[p] = "NoPlaceAvailableError"
    /\ \E k \in DOMAIN store : \E i \in 1..Len(commits[k]) :
          /\ commits[k][i].op = "restock"
          /\ commits[k][i].before.stock + commits[k][i].count <= MAX_STOCK

\* C7: no-op terminal cases: a buy_item that observed stock 0 ends with
\* OutOfStockError and a restock_item that observed stock MAX_STOCK ends with
\* TooMuchStockError; in both cases no EXEC is attempted (nothing is applied,
\* no watcher is flagged, no WatchError can result) and the store is unchanged.
C7_NoOpTerminal ==
    [][\A p \in Procs :
          (Decides(p) /\ count[p] > 0) =>
             /\ (op[p] = "buy" /\ current_stock[p] = 0) =>
                   /\ outcome'[p] = "OutOfStockError"
                   /\ store' = store /\ commits' = commits
                   /\ \A q \in Procs \ {p} : dirty'[q] = dirty[q]
             /\ (op[p] = "restock" /\ current_stock[p] = MAX_STOCK) =>
                   /\ outcome'[p] = "TooMuchStockError"
                   /\ store' = store /\ commits' = commits
                   /\ \A q \in Procs \ {p} : dirty'[q] = dirty[q]]_vars

\* C7 witness: a purchase found the record sold out
C7_Witness == \E p \in Procs : outcome[p] = "OutOfStockError"

\* C8: a call that ended with a partial fulfilment has had its block applied:
\* TooMuchDemandError only after a commit of that call that set stock to 0 and
\* raised nb_achat by the observed stock, NoPlaceAvailableError only after a
\* commit of that call that set stock to MAX_STOCK.
C8_PartialAfterCommit ==
    \A p \in Procs :
        /\ outcome[p] = "TooMuchDemandError" =>
              \E k \in DOMAIN commits : \E i \in 1..Len(commits[k]) :
                 LET c == commits[k][i]
                 IN /\ c.proc = p /\ c.op = "buy"
                    /\ c.after.stock = 0
                    /\ c.after.nb_achat = c.before.nb_achat + c.observed
        /\ outcome[p] = "NoPlaceAvailableError" =>
              \E k \in DOMAIN commits : \E i \in 1..Len(commits[k]) :
                 LET c == commits[k][i]
                 IN /\ c.proc = p /\ c.op = "restock"
                    /\ c.after.stock = MAX_STOCK
                    /\ c.after.nb_achat = c.before.nb_achat

\* C8 witness: a call ended with TooMuchDemandError
C8_Witness == \E p \in Procs : outcome[p] = "TooMuchDemandError"

\* C9: the i-th block applied to a record comes from a call that sent WATCH
\* and HGET when i-1 blocks had been applied: no block is applied when another
\* one was applied to the record since the call began watching, and no two
\* applied blocks come from the same observed version.
C9_OneCommitPerVersion ==
    \A k \in DOMAIN commits :
        /\ \A i \in 1..Len(commits[k]) :
              commits[k][i].watched_at = i - 1 /\ commits[k][i].read_at = i - 1
        /\ \A i, j \in 1..Len(commits[k]) :
              commits[k][i].read_at = commits[k][j].read_at => i = j

\* C9 witness: two calls raced on a record; one block was applied, the other aborted
C9_Witness ==
    \E p \in Procs :
        /\ outcome[p] = "WatchError"
        /\ \E k \in DOMAIN commits : \E i \in 1..Len(commits[k]) :
              commits[k][i].proc # p

\* C10: SpecAnyAmount: a buy_item call with count <= 0 is rejected before it
\* observes anything: its only step ends the call, without WATCH, HGET or
\* EXEC, and leaves the store unchanged.
C10_NonPositiveBuyRejected ==
    [][\A p \in Procs :
          (op[p] = "buy" /\ count[p] <= 0 /\ pc'[p] # pc[p]) =>
             /\ pc'[p] = "done"
             /\ store' = store]_vars


\* C11: a call on a key that does not exist ends at its HGET, with the
\* AttributeError of None.decode(): it never reaches the branches, is not
\* sent back to WATCH, attempts no EXEC, does not create the key and changes
\* no record.
C11_MissingKeyFailsAtRead ==
    [][\A p \in Procs :
          (sushi_id[p] \in AllKeys \ DOMAIN store /\ pc'[p] # pc[p]) =>
             /\ store' = store
             /\ commits' = commits
             /\ dirty' = dirty
             /\ pc[p] = "watch" => pc'[p] = "read"
             /\ pc[p] = "read" => pc'[p] = "done" /\ outcome'[p] = "AttributeError"
             /\ pc[p] \in {"watch", "read"}]_vars

\* C11 witness: a call on the key that was never loaded has ended
C11_Witness ==
    /\ \E p \in Procs : outcome[p] = "AttributeError"
    /\ DOMAIN store = LoadedKeys

\* C12: FairSpec: every call that has begun eventually ends (returns or
\* raises to its caller); no call stays between WATCH and EXEC forever.
C12_EveryCallResolves ==
    \A p \in Procs : (pc[p] \in {"watch", "read", "decide"}) ~> (pc[p] = "done")

\* C12 witness: all the callers have ended, two of them after working on the
\* same record
C12_Witness ==
    /\ \A p \in Callers : pc[p] = "done"
    /\ \E k \in DOMAIN commits : Len(commits[k]) = NumCallers

(***************************************************************************)
(* The decision table of the two operations: the record that a purchase    *)
(* or a restock of n units leaves when it is applied to record h.          *)
(***************************************************************************)
BuyDecision(h, n) ==
    IF h.stock >= n THEN [h EXCEPT !.stock = @ - n, !.nb_achat = @ + n]
    ELSE IF h.stock > 0 THEN [h EXCEPT !.stock = 0, !.nb_achat = @ + h.stock]
    ELSE h

RestockDecision(h, n) ==
    IF h.stock + n <= MAX_STOCK THEN [h EXCEPT !.stock = @ + n]
    ELSE IF h.stock < MAX_STOCK THEN [h EXCEPT !.stock = MAX_STOCK]
    ELSE h

Decision(o, h, n) == IF o = "buy" THEN BuyDecision(h, n) ELSE RestockDecision(h, n)

\* the record obtained from h by applying the decisions of log one after another
RECURSIVE Replay(_, _)
Replay(h, log) ==
    IF log = <<>> THEN h
    ELSE Replay(Decision(Head(log).op, h, Head(log).count), Tail(log))

\* C13: serializability: every record equals the loaded record with the
\* decisions of the committed calls applied one after another in commit
\* order; each committed call observed exactly the stock that was stored just
\* before its commit, which is the result of the commits before it.
C13_Serializable ==
    \A k \in DOMAIN store :
        /\ store[k] = Replay(loaded[k], commits[k])
        /\ \A i \in 1..Len(commits[k]) :
              /\ commits[k][i].before = Replay(loaded[k], SubSeq(commits[k], 1, i - 1))
              /\ commits[k][i].observed = commits[k][i].before.stock
              /\ commits[k][i].after = Replay(loaded[k], SubSeq(commits[k], 1, i))

\* C13 witness: a restock and then a purchase were committed on one record
C13_Witness ==
    \E k \in DOMAIN commits :
        /\ Len(commits[k]) = 2
        /\ commits[k][1].op = "restock" /\ commits[k][2].op = "buy"
        /\ commits[k][1].proc # commits[k][2].proc

\* C14: the way a call on an existing record ends is the decision table
\* applied to the observed stock s and count > 0.  buy_item: Success iff
\* s >= count, TooMuchDemandError iff 0 < s < count, OutOfStockError iff
\* s = 0.  restock_item: Success iff s + count <= MAX_STOCK,
\* NoPlaceAvailableError iff s < MAX_STOCK < s + count, TooMuchStockError iff
\* s = MAX_STOCK.
C14_OutcomeIsDecisionTable ==
    [][\A p \in Procs :
          (Decides(p) /\ count[p] > 0) =>
             LET s == current_stock[p]
                 n == count[p]
                 o == outcome'[p]
             IN /\ op[p] = "buy" =>
                     /\ (o = "Success") <=> (s >= n)
                     /\ (o = "TooMuchDemandError") <=> (0 < s /\ s < n)
                     /\ (o = "OutOfStockError") <=> (s = 0)
                /\ op[p] = "restock" =>
                     /\ (o = "Success") <=> (s + n <= MAX_STOCK)
                     /\ (o = "NoPlaceAvailableError") <=> (s < MAX_STOCK /\ MAX_STOCK < s + n)
                     /\ (o = "TooMuchStockError") <=> (s = MAX_STOCK)]_vars

\* C15: every EXEC is all or nothing.  A step changes a record only when it
\* is the commit of one call on that record, and then a purchase moves stock
\* and nb_achat together (what leaves stock enters nb_achat, and some unit
\* does) while a restock moves stock alone; a call whose EXEC is aborted
\* (WatchError) leaves the whole store as it was.
C15_AllOrNothing ==
    [][/\ \A k \in DOMAIN store :
            store'[k] # store[k] =>
               \E p \in Procs :
                  /\ Commits(p) /\ sushi_id[p] = k
                  /\ op[p] = "buy" =>
                        /\ store'[k].stock < store[k].stock
                        /\ store'[k].nb_achat - store[k].nb_achat
                             = store[k].stock - store'[k].stock
                  /\ op[p] = "restock" =>
                        /\ store'[k].stock > store[k].stock
                        /\ store'[k].nb_achat = store[k].nb_achat
       /\ \A p \in Procs :
            (Decides(p) /\ outcome'[p] = "WatchError") =>
               store' = store /\ commits' = commits]_vars

\* C15 witness: one call committed a purchase on a record and the EXEC of
\* another call was aborted
C15_Witness ==
    /\ \E p \in Procs : outcome[p] = "WatchError"
    /\ \E k \in DOMAIN commits :
          /\ Len(commits[k]) = 1
          /\ commits[k][1].op = "buy"
          /\ store[k].nb_achat = commits[k][1].after.nb_achat
          /\ store[k].stock = commits[k][1].after.stock

\* C16: frame of the two mutators: no step changes the fields set at the
\* creation of a record (id, the ingredients) or the set of its fields; a
\* step of a restock_item call, however the call ends, leaves nb_achat of
\* every record unchanged; a step of a buy_item call changes nothing but
\* stock and nb_achat.
C16_Frame ==
    [][/\ \A k \in DOMAIN store :
            /\ store'[k].id = store[k].id
            /\ store'[k].saumon = store[k].saumon
            /\ DOMAIN store'[k] = DOMAIN store[k]
       /\ DOMAIN store' = DOMAIN store
       /\ \A p \in Procs :
            (op[p] = "restock" /\ pc'[p] # pc[p]) =>
               \A k \in DOMAIN store : store'[k].nb_achat = store[k].nb_achat
       /\ \A p \in Procs :
            (op[p] = "buy" /\ pc'[p] # pc[p]) =>
               \A k \in DOMAIN store :
                  store'[k] = [store[k] EXCEPT !.stock = store'[k].stock,
                                               !.nb_achat = store'[k].nb_achat]]_vars

\* C16 witness: a purchase and then a restock were committed on one record,
\* whose purchase count is still the one the purchase left
C16_Witness ==
    \E k \in DOMAIN commits :
        /\ Len(commits[k]) = 2
        /\ commits[k][1].op = "buy" /\ commits[k][2].op = "restock"
        /\ store[k].nb_achat = commits[k][1].after.nb_achat
        /\ store[k].stock # commits[k][1].after.stock

\* the units added to the stock by the restocks of log
RECURSIVE RestockedUnits(_)
RestockedUnits(log) ==
    IF log = <<>> THEN 0
    ELSE (IF Head(log).op = "restock"
          THEN Head(log).after.stock - Head(log).before.stock ELSE 0)
         + RestockedUnits(Tail(log))

\* C17: accounting: for every record, stock + nb_achat equals the stock it
\* was loaded with plus the units added by the committed restocks; with no
\* restock committed, stock + nb_achat is the loaded stock.
C17_Accounting ==
    \A k \in DOMAIN store :
        /\ store[k].stock + store[k].nb_achat
             = loaded[k].stock + RestockedUnits(commits[k])
        /\ (\A i \in 1..Len(commits[k]) : commits[k][i].op = "buy") =>
              store[k].stock + store[k].nb_achat = loaded[k].stock

\* C17 witness: a record on which a partial restock and a purchase were committed
C17_Witness ==
    \E k \in DOMAIN commits :
        /\ RestockedUnits(commits[k]) > 0
        /\ store[k].nb_achat > 0
        /\ \E i \in 1..Len(commits[k]) :
              /\ commits[k][i].op = "restock"
              /\ commits[k][i].after.stock - commits[k][i].before.stock
                   < commits[k][i].count

\* C18: an invocation only moves forward: invoked, WATCH, HGET, one branch,
\* ended.  It sends WATCH once and HGET once and attempts at most one EXEC;
\* the body of its `while True` loop never runs a second time, also when its
\* EXEC is aborted.
C18_LoopBodyRunsOnce ==
    [][\A p \in Procs :
          pc'[p] # pc[p] =>
             /\ <<pc[p], pc'[p]>> \in {<<"idle", "watch">>, <<"watch", "read">>,
                                       <<"read", "decide">>, <<"read", "done">>,
                                       <<"decide", "done">>}
             /\ (pc[p] = "decide" /\ dirty[p] /\ current_stock[p] > 0
                   /\ current_stock[p] < MAX_STOCK) =>
                   outcome'[p] = "WatchError"]_vars

\* C18 witness: a call whose EXEC was aborted has ended, with nothing applied
\* for it
C18_Witness ==
    \E p \in Procs :
        /\ pc[p] = "done" /\ outcome[p] = "WatchError"
        /\ \A k \in DOMAIN commits : \A i \in 1..Len(commits[k]) :
              commits[k][i].proc # p

\* C19: calls on different records are independent.  A step of a call on
\* key a leaves every other record and its history unchanged; its HGET reads
\* the stock of a; a connection is flagged only by a commit on the key it
\* watches, so a commit on another key never aborts its EXEC; and a record on
\* which no call committed is still the loaded record.
C19_KeysIndependent ==
    /\ [](\A k \in DOMAIN store : commits[k] = <<>> => store[k] = loaded[k])
    /\ [][/\ \A p \in Procs :
               (pc'[p] # pc[p] /\ pc[p] # "idle") =>
                  /\ \A b \in DOMAIN store \ {sushi_id[p]} :
                        store'[b] = store[b] /\ commits'[b] = commits[b]
                  /\ (pc[p] = "read" /\ pc'[p] = "decide") =>
                        current_stock'[p] = store[sushi_id[p]].stock
          /\ \A q \in Procs :
               (dirty'[q] /\ ~dirty[q]) =>
                  \E p \in Procs \ {q} : Commits(p) /\ sushi_id[p] = sushi_id[q]
          /\ \A q \in Procs :
               (Decides(q) /\ outcome'[q] = "WatchError") =>
                  Len(commits[sushi_id[q]]) > watched_at[q]]_vars

\* C19 witness: two calls on two different records have both committed
C19_Witness ==
    \E a, b \in DOMAIN commits :
        /\ a # b
        /\ Len(commits[a]) = 1 /\ Len(commits[b]) = 1
        /\ commits[a][1].proc # commits[b][1].proc

=============================================================================
